---- MODULE Spec2Model ----
(***************************************************************************)
(* A model of soul::Tokeniser (soul_Tokeniser.h).                          *)
(*                                                                         *)
(* The source text is a sequence of code points (what UTF8Reader yields),  *)
(* followed by an implicit 0 terminator.  A cursor is an index into it.    *)
(* Every member function is an operator from an engine record to an engine *)
(* record; a function result travels in the field "ret", a thrown error in *)
(* the field "err".  64-bit integers are four 16-bit limbs, least          *)
(* significant first, so that the accumulator keeps its width.             *)
(***************************************************************************)
EXTENDS Integers, Sequences, FiniteSets, TLC

\* ------------------------------------------------------------------------
\* Characters
\* ------------------------------------------------------------------------
CharCode ==
    ("0" :> 48) @@ ("1" :> 49) @@ ("2" :> 50) @@ ("3" :> 51) @@ ("4" :> 52) @@
    ("5" :> 53) @@ ("6" :> 54) @@ ("7" :> 55) @@ ("8" :> 56) @@ ("9" :> 57) @@
    ("a" :> 97) @@ ("b" :> 98) @@ ("c" :> 99) @@ ("d" :> 100) @@ ("e" :> 101) @@
    ("f" :> 102) @@ ("g" :> 103) @@ ("i" :> 105) @@ ("n" :> 110) @@ ("r" :> 114) @@
    ("t" :> 116) @@ ("u" :> 117) @@ ("x" :> 120) @@ ("z" :> 122) @@
    ("A" :> 65) @@ ("B" :> 66) @@ ("E" :> 69) @@ ("F" :> 70) @@ ("L" :> 76) @@
    ("X" :> 88) @@ ("Z" :> 90) @@
    ("_" :> 95) @@ ("-" :> 45) @@ ("+" :> 43) @@ ("." :> 46) @@ ("/" :> 47) @@
    ("*" :> 42) @@ (" " :> 32) @@ ("\n" :> 10) @@ ("\t" :> 9) @@ ("\r" :> 13) @@
    ("\"" :> 34) @@ ("'" :> 39) @@ ("\\" :> 92) @@ (";" :> 59) @@ ("=" :> 61) @@
    ("#" :> 35) @@ (">" :> 62)

Ch(c) == CharCode[c]

Str(t) == [i \in DOMAIN t |-> Ch(t[i])]

\* ------------------------------------------------------------------------
\* uint64_t / int64_t as four 16-bit limbs (two's complement for int64_t)
\* ------------------------------------------------------------------------
Limb == 65536

U64(n) == <<n % Limb, (n \div Limb) % Limb, 0, 0>>

U64Max == <<Limb - 1, Limb - 1, Limb - 1, Limb - 1>>

\* a < b, unsigned
ULess(a, b) ==
    \E i \in 1..4 : a[i] < b[i] /\ \A j \in (i+1)..4 : a[j] = b[j]

UGreater(a, b) == ULess(b, a)

\* (a * m) mod 2^64, m small
UMulSmall(a, m) ==
    LET p1 == a[1] * m
        p2 == a[2] * m + p1 \div Limb
        p3 == a[3] * m + p2 \div Limb
        p4 == a[4] * m + p3 \div Limb
    IN  <<p1 % Limb, p2 % Limb, p3 % Limb, p4 % Limb>>

\* (a + d) mod 2^64, d small
UAddSmall(a, d) ==
    LET p1 == a[1] + d
        p2 == a[2] + p1 \div Limb
        p3 == a[3] + p2 \div Limb
        p4 == a[4] + p3 \div Limb
    IN  <<p1 % Limb, p2 % Limb, p3 % Limb, p4 % Limb>>

\* a \div m, m small
UDivSmall(a, m) ==
    LET n4 == a[4]
        n3 == (n4 % m) * Limb + a[3]
        n2 == (n3 % m) * Limb + a[2]
        n1 == (n2 % m) * Limb + a[1]
    IN  <<n1 \div m, n2 \div m, n3 \div m, n4 \div m>>

\* (a - d) mod 2^64, d small
USubSmall(a, d) ==
    LET p1 == a[1] - d
        b1 == IF p1 < 0 THEN 1 ELSE 0
        p2 == a[2] - b1
        b2 == IF p2 < 0 THEN 1 ELSE 0
        p3 == a[3] - b2
        b3 == IF p3 < 0 THEN 1 ELSE 0
        p4 == a[4] - b3
    IN  <<p1 % Limb, p2 % Limb, p3 % Limb, p4 % Limb>>

\* the bitwise complement
UNot(a) == [i \in 1..4 |-> Limb - 1 - a[i]]

\* int64_t: the sign bit
SNeg(a) == a[4] >= Limb \div 2

\* int64_t: a > b
SGreater(a, b) ==
    IF SNeg(a) # SNeg(b) THEN SNeg(b) ELSE UGreater(a, b)

\* int64_t: -a, in two's complement
SNegate(a) == UAddSmall(UNot(a), 1)

Int64Min == <<0, 0, 0, Limb \div 2>>

\* std::numeric_limits<int32_t>::max() and -(int64_t) min(), as int64_t
Int32Max == <<Limb - 1, Limb \div 2 - 1, 0, 0>>

MinusInt32Min == <<0, Limb \div 2, 0, 0>>

\* ------------------------------------------------------------------------
\* Token types
\* ------------------------------------------------------------------------
NullToken == "null"

Token_eof == "$eof"

Token_literalInt32 == "$integer32"

Token_literalInt64 == "$integer64"

Token_literalFloat32 == "$float32"

Token_literalFloat64 == "$float64"

Token_literalString == "$string literal"

Token_identifier == "$identifier"

maxIdentifierLength == 256

\* ------------------------------------------------------------------------
\* UTF8Reader: a cursor p into text; reading at the end gives the terminator
\* ------------------------------------------------------------------------
At(text, p) == IF p \in 1..Len(text) THEN text[p] ELSE 0

isEmpty(text, p) == At(text, p) = 0

isDigitChar(c) == c >= 48 /\ c <= 57

isDigit(text, p) == isDigitChar(At(text, p))

isWhitespace(c) == c \in {32, 9, 10, 11, 12, 13}

RECURSIVE findEndOfWhitespace(_, _)
findEndOfWhitespace(text, p) ==
    IF isWhitespace(At(text, p)) THEN findEndOfWhitespace(text, p + 1) ELSE p

startsWith(text, p, pat) ==
    \A i \in 1..Len(pat) : At(text, p + i - 1) = pat[i]

RECURSIVE find(_, _, _)
find(text, p, pat) ==
    IF startsWith(text, p, pat) \/ isEmpty(text, p) THEN p
    ELSE find(text, p + 1, pat)

\* advanceIfStartsWith (a, b, ...): the candidates are tried in order; the
\* result is the cursor after the first one that matches, or 0 if none does
RECURSIVE advanceIfStartsWith(_, _, _)
advanceIfStartsWith(text, p, pats) ==
    IF pats = <<>> THEN 0
    ELSE IF startsWith(text, p, Head(pats)) THEN p + Len(Head(pats))
    ELSE advanceIfStartsWith(text, p, Tail(pats))

getHexDigitValue(c) ==
    IF c >= 48 /\ c <= 57 THEN c - 48
    ELSE IF c >= 97 /\ c <= 102 THEN c - 97 + 10
    ELSE IF c >= 65 /\ c <= 70 THEN c - 65 + 10
    ELSE -1

\* ------------------------------------------------------------------------
\* The grammar policies the engine is instantiated with
\* ------------------------------------------------------------------------
isIdentifierAnywhere(c) == (c >= 97 /\ c <= 122) \/ (c >= 65 /\ c <= 90)

isIdentifierStart(c) == isIdentifierAnywhere(c)

isIdentifierBody(c) == isIdentifierAnywhere(c) \/ isDigitChar(c) \/ c = 95

Keywords == << <<"i", "f">> >>

KeywordName(k) == IF k = <<"i", "f">> THEN "if" ELSE NullToken

\* KeywordList::match (len, cursor): the keyword spelt by exactly the len
\* characters at the cursor, or the null token
KeywordMatch(text, p, len) ==
    LET hits == {i \in DOMAIN Keywords :
                    /\ Len(Keywords[i]) = len
                    /\ startsWith(text, p, Str(Keywords[i]))}
    IN  IF hits = {} THEN NullToken
        ELSE KeywordName(Keywords[CHOOSE i \in hits : TRUE])

\* The operator table, longer spellings before their prefixes
Operators ==
    << <<"-", "-">>, <<"-", "=">>, <<"-", ">">>, <<"/", "=">>, <<"=", "=">>,
       <<"-">>, <<"/">>, <<".">>, <<"+">>, <<"*">>, <<"=">>, <<";">> >>

RECURSIVE Spell(_)
Spell(t) == IF t = <<>> THEN "" ELSE Head(t) \o Spell(Tail(t))

\* OperatorList::match (cursor): the longest operator at the cursor; ret is
\* its token type (or the null token) and len the characters it consumed
OperatorMatch(text, p) ==
    LET hits == {i \in DOMAIN Operators : startsWith(text, p, Str(Operators[i]))}
    IN  IF hits = {} THEN [ret |-> NullToken, len |-> 0]
        ELSE LET i == CHOOSE i \in hits : \A j \in hits : i <= j
             IN  [ret |-> Spell(Operators[i]), len |-> Len(Operators[i])]

IsOperatorToken(t) == \E i \in DOMAIN Operators : Spell(Operators[i]) = t

\* ------------------------------------------------------------------------
\* The engine record and errors
\* ------------------------------------------------------------------------
NoError == "none"

\* throwError: nothing after the throw runs
Throw(s, e) == [s EXCEPT !.err = e]

Return(s, r) == [s EXCEPT !.ret = r]

Failed(s) == s.err # NoError

\* ------------------------------------------------------------------------
\* Integer literals
\* ------------------------------------------------------------------------
\* checkCharacterImmediatelyAfterLiteral without its check
checkCharacterImmediatelyAfterLiteral_unchecked(s) == s

checkCharacterImmediatelyAfterLiteral(s) ==
    IF isDigit(s.text, s.input) \/ isIdentifierBody(At(s.text, s.input))
    THEN Throw([s EXCEPT !.location = s.input], "unrecognisedLiteralSuffix")
    ELSE s

\* parseSuffixForIntLiteral that consumes a suffix but always answers 32 bits
parseSuffixForIntLiteral_always32(s) ==
    LET a == advanceIfStartsWith(s.text, s.input,
                 <<Str(<<"i", "6", "4">>), Str(<<"_", "i", "6", "4">>),
                   Str(<<"L">>), Str(<<"_", "L">>),
                   Str(<<"i", "3", "2">>), Str(<<"_", "i", "3", "2">>)>>)
    IN  IF a # 0 THEN Return([s EXCEPT !.input = a], Token_literalInt32)
        ELSE Return(s, Token_literalInt32)

parseSuffixForIntLiteral(s) ==
    LET a == advanceIfStartsWith(s.text, s.input,
                 <<Str(<<"i", "6", "4">>), Str(<<"_", "i", "6", "4">>),
                   Str(<<"L">>), Str(<<"_", "L">>)>>)
        b == advanceIfStartsWith(s.text, s.input,
                 <<Str(<<"i", "3", "2">>), Str(<<"_", "i", "3", "2">>)>>)
    IN  IF a # 0 THEN Return([s EXCEPT !.input = a], Token_literalInt64)
        ELSE IF b # 0 THEN Return([s EXCEPT !.input = b], Token_literalInt32)
        ELSE Return(s, Token_literalInt32)

\* the digit lambdas of parseDecimalLiteral, parseHexLiteral,
\* parseBinaryLiteral and parseOctalLiteral; -2 stands for the octal lambda
\* throwing decimalDigitInOctal
getNextDigit(base, c) ==
    CASE base = 10 -> IF c - 48 < 10 THEN c - 48 ELSE -1
      [] base = 16 -> getHexDigitValue(c)
      [] base = 2  -> IF c = 48 THEN 0 ELSE IF c = 49 THEN 1 ELSE -1
      [] base = 8  -> IF c >= 48 /\ c <= 55 THEN c - 48
                      ELSE IF c = 56 \/ c = 57 THEN -2
                      ELSE -1

\* one pass through the body of the for (;;) of parseIntegerWithBase, without
\* the test before the multiplication
digitStep_noMultiplyCheck(text, base, st) ==
    LET possibleDigit == getNextDigit(base, At(text, st.t))
        v2 == UMulSmall(st.v, base)
    IN  IF st.done \/ st.err # NoError THEN st
        ELSE IF base = 8 /\ possibleDigit = -2
        THEN [st EXCEPT !.err = "decimalDigitInOctal"]
        ELSE IF possibleDigit < 0
        THEN [st EXCEPT !.done = TRUE]
        ELSE IF UGreater(v2, USubSmall(U64Max, possibleDigit))
        THEN [st EXCEPT !.err = "integerLiteralTooLarge", !.v = v2]
        ELSE [st EXCEPT !.t = @ + 1, !.v = UAddSmall(v2, possibleDigit),
                        !.numDigits = @ + 1]

\* one pass through the body of the for (;;) of parseIntegerWithBase: st holds
\* t, v and numDigits, done once the loop has met its break and err once it
\* has thrown
digitStep(text, base, st) ==
    LET possibleDigit == getNextDigit(base, At(text, st.t))
        v2 == UMulSmall(st.v, base)
    IN  IF st.done \/ st.err # NoError THEN st
        ELSE IF base = 8 /\ possibleDigit = -2
        THEN [st EXCEPT !.err = "decimalDigitInOctal"]
        ELSE IF possibleDigit < 0
        THEN [st EXCEPT !.done = TRUE]
        ELSE IF UGreater(st.v, UDivSmall(U64Max, base))
        THEN [st EXCEPT !.err = "integerLiteralTooLarge"]
        ELSE IF UGreater(v2, USubSmall(U64Max, possibleDigit))
        THEN [st EXCEPT !.err = "integerLiteralTooLarge", !.v = v2]
        ELSE [st EXCEPT !.t = @ + 1, !.v = UAddSmall(v2, possibleDigit),
                        !.numDigits = @ + 1]

\* n passes through the body, one after the other
RECURSIVE iterateDigits(_, _, _, _)
iterateDigits(text, base, st, n) ==
    IF n <= 0 \/ st.done \/ st.err # NoError THEN st
    ELSE IF n = 1 THEN digitStep(text, base, st)
    ELSE iterateDigits(text, base, iterateDigits(text, base, st, n \div 2),
                       n - n \div 2)

\* the for (;;) of parseIntegerWithBase: t, v, numDigits at its break, or the
\* error it throws; every pass but the last moves t on, so the passes are no
\* more than the characters from t to the terminator
accumulateDigits(text, t, v, numDigits, base) ==
    iterateDigits(text, base,
                  [err |-> NoError, done |-> FALSE, t |-> t, v |-> v,
                   numDigits |-> numDigits],
                  Len(text) - t + 2)

\* parseIntegerWithBase after checkCharacterImmediatelyAfterLiteral
parseIntegerWithBase_checked(s4) == IF Failed(s4) THEN s4 ELSE Return(s4, TRUE)

\* ... after parseSuffixForIntLiteral: its result becomes literalType
parseIntegerWithBase_suffixed(s2) ==
    parseIntegerWithBase_checked(
        checkCharacterImmediatelyAfterLiteral([s2 EXCEPT !.literalType = s2.ret]))

\* ... after the loop: r is what the loop left
parseIntegerWithBase_digits(s, r) ==
    IF r.err # NoError THEN Throw(s, r.err)
    ELSE IF r.numDigits = 0 THEN Return(s, FALSE)
    ELSE parseIntegerWithBase_suffixed(
             parseSuffixForIntLiteral(
                 [s EXCEPT !.input = r.t, !.literalIntValue = r.v]))

parseIntegerWithBase(s, t, base) ==
    parseIntegerWithBase_digits(s, accumulateDigits(s.text, t, U64(0), 0, base))

parseDecimalLiteral(s) == parseIntegerWithBase(s, s.input, 10)

\* parseHexLiteral that moves the cursor itself past the prefix
parseHexLiteral_movesCursor(s) ==
    LET t == advanceIfStartsWith(s.text, s.input,
                 <<Str(<<"0", "x">>), Str(<<"0", "X">>)>>)
    IN  IF t # 0 THEN parseIntegerWithBase([s EXCEPT !.input = t], t, 16)
        ELSE Return(s, FALSE)

parseHexLiteral(s) ==
    LET t == advanceIfStartsWith(s.text, s.input,
                 <<Str(<<"0", "x">>), Str(<<"0", "X">>)>>)
    IN  IF t # 0 THEN parseIntegerWithBase(s, t, 16) ELSE Return(s, FALSE)

parseBinaryLiteral(s) ==
    LET t == advanceIfStartsWith(s.text, s.input,
                 <<Str(<<"0", "b">>), Str(<<"0", "B">>)>>)
    IN  IF t # 0 THEN parseIntegerWithBase(s, t, 2) ELSE Return(s, FALSE)

\* parseOctalLiteral without the rejection: the '0'-digit shape is not looked for
parseOctalLiteral_notRecognised(s) == Return(s, FALSE)

parseOctalLiteral(s) ==
    IF At(s.text, s.input) = Ch("0") /\ isDigit(s.text, s.input + 1)
    THEN parseIntegerWithBase(s, s.input, 8)
    ELSE Return(s, FALSE)

checkIntLiteralRange(s, isNegative) ==
    IF s.literalType = Token_literalInt32
    THEN IF isNegative /\ SGreater(s.literalIntValue, MinusInt32Min)
         THEN Throw(s, "integerLiteralTooLow")
         ELSE IF ~isNegative /\ SGreater(s.literalIntValue, Int32Max)
         THEN Throw(s, "integerLiteralTooLarge")
         ELSE Return(s, s.literalType)
    ELSE Return(s, s.literalType)

\* ------------------------------------------------------------------------
\* Float literals
\* ------------------------------------------------------------------------
RECURSIVE endOfDigits(_, _)
endOfDigits(text, p) == IF isDigit(text, p) THEN endOfDigits(text, p + 1) ELSE p

RECURSIVE Pow10(_)
Pow10(n) == IF n = 0 THEN 1 ELSE 10 * Pow10(n - 1)

\* the number spelt by the decimal digits of text[from .. to-1]
RECURSIVE digitsValue(_, _, _)
digitsValue(text, from, to) ==
    IF to <= from THEN 0
    ELSE 10 * digitsValue(text, from, to - 1) + (At(text, to - 1) - 48)

\* a decimal value mant * 10^exp with its sign, trailing zeros of mant removed
RECURSIVE normalise(_, _)
normalise(mant, exp) ==
    IF mant = 0 THEN [neg |-> FALSE, mant |-> 0, exp |-> 0]
    ELSE IF mant % 10 = 0 THEN normalise(mant \div 10, exp + 1)
    ELSE [neg |-> FALSE, mant |-> mant, exp |-> exp]

\* std::stod of text[from .. to-1], a span parseFloatLiteral has recognised:
\* digits, an optional point and digits, an optional signed exponent
stod(text, from, to) ==
    LET i1 == endOfDigits(text, from)
        hasPoint == At(text, i1) = Ch(".")
        f0 == i1 + 1
        i2 == IF hasPoint THEN endOfDigits(text, f0) ELSE i1
        fracLen == IF hasPoint THEN i2 - f0 ELSE 0
        mant == digitsValue(text, from, i1) * Pow10(fracLen)
                  + (IF hasPoint THEN digitsValue(text, f0, i2) ELSE 0)
        hasExponent == i2 < to
        e0 == i2 + 1
        expNeg == At(text, e0) = Ch("-")
        e1 == IF At(text, e0) \in {Ch("+"), Ch("-")} THEN e0 + 1 ELSE e0
        expMag == IF hasExponent THEN digitsValue(text, e1, to) ELSE 0
    IN  normalise(mant, (IF expNeg THEN -expMag ELSE expMag) - fracLen)

negateDouble(d) == [d EXCEPT !.neg = ~@]

parseSuffixForFloatLiteral(s) ==
    LET a == advanceIfStartsWith(s.text, s.input,
                 <<Str(<<"f", "6", "4">>), Str(<<"_", "f", "6", "4">>)>>)
        b == advanceIfStartsWith(s.text, s.input,
                 <<Str(<<"f", "3", "2">>), Str(<<"_", "f", "3", "2">>),
                   Str(<<"f">>), Str(<<"_", "f">>)>>)
    IN  IF a # 0 THEN Return([s EXCEPT !.input = a], Token_literalFloat64)
        ELSE IF b # 0 THEN Return([s EXCEPT !.input = b], Token_literalFloat32)
        ELSE Return(s, Token_literalFloat64)

\* parseFloatLiteral after checkCharacterImmediatelyAfterLiteral
parseFloatLiteral_checked(s4) == IF Failed(s4) THEN s4 ELSE Return(s4, TRUE)

\* ... after parseSuffixForFloatLiteral: its result becomes literalType
parseFloatLiteral_suffixed(s2) ==
    parseFloatLiteral_checked(
        checkCharacterImmediatelyAfterLiteral([s2 EXCEPT !.literalType = s2.ret]))

\* ... from std::stod on: t is the cursor after the recognised run
parseFloatLiteral_scanned(s, t) ==
    parseFloatLiteral_suffixed(
        parseSuffixForFloatLiteral(
            [s EXCEPT !.literalDoubleValue = stod(s.text, s.input, t),
                      !.input = t]))

parseFloatLiteral(s) ==
    LET t1 == endOfDigits(s.text, s.input)
        hasPoint == At(s.text, t1) = Ch(".")
        t2 == IF hasPoint THEN endOfDigits(s.text, t1 + 1) ELSE t1
        numDigits == (t1 - s.input) + (IF hasPoint THEN t2 - (t1 + 1) ELSE 0)
        c == At(s.text, t2)
        hasExponent == c = Ch("e") \/ c = Ch("E")
        t3 == t2 + 1
        t4 == IF At(s.text, t3) = Ch("+") \/ At(s.text, t3) = Ch("-")
              THEN t3 + 1 ELSE t3
        t == IF hasExponent THEN endOfDigits(s.text, t4 + 1) ELSE t2
    IN  IF numDigits = 0 THEN Return(s, FALSE)
        ELSE IF hasExponent /\ ~isDigit(s.text, t4) THEN Return(s, FALSE)
        ELSE IF ~(hasExponent \/ hasPoint) THEN Return(s, FALSE)
        ELSE parseFloatLiteral_scanned(s, t)

\* parseNumericLiteral after parseDecimalLiteral
parseNumericLiteral_decimal(d, isNegative) ==
    IF Failed(d) THEN d
    ELSE IF d.ret THEN checkIntLiteralRange(d, isNegative)
    ELSE Throw(d, "errorInNumericLiteral")

\* ... after parseBinaryLiteral
parseNumericLiteral_binary(b, isNegative) ==
    IF Failed(b) THEN b
    ELSE IF b.ret THEN checkIntLiteralRange(b, isNegative)
    ELSE parseNumericLiteral_decimal(parseDecimalLiteral(b), isNegative)

\* ... after parseOctalLiteral
parseNumericLiteral_octal(o, isNegative) ==
    IF Failed(o) THEN o
    ELSE IF o.ret THEN Throw(o, "noOctalLiterals")
    ELSE parseNumericLiteral_binary(parseBinaryLiteral(o), isNegative)

\* ... after parseFloatLiteral
parseNumericLiteral_float(f, isNegative) ==
    IF Failed(f) THEN f
    ELSE IF f.ret THEN Return(f, f.literalType)
    ELSE parseNumericLiteral_octal(parseOctalLiteral(f), isNegative)

\* ... after parseHexLiteral
parseNumericLiteral_hex(h, isNegative) ==
    IF Failed(h) THEN h
    ELSE IF h.ret THEN checkIntLiteralRange(h, isNegative)
    ELSE parseNumericLiteral_float(parseFloatLiteral(h), isNegative)

parseNumericLiteral(s, isNegative) ==
    parseNumericLiteral_hex(parseHexLiteral(s), isNegative)

\* ------------------------------------------------------------------------
\* String literals
\* ------------------------------------------------------------------------
RECURSIVE Pow2(_)
Pow2(n) == IF n = 0 THEN 1 ELSE 2 * Pow2(n - 1)

RECURSIVE BitOr(_, _)
BitOr(a, b) ==
    IF a = 0 THEN b
    ELSE IF b = 0 THEN a
    ELSE 2 * BitOr(a \div 2, b \div 2) + (IF a % 2 = 1 \/ b % 2 = 1 THEN 1 ELSE 0)

\* the while (--numExtraBytes >= 0) of appendUTF8
RECURSIVE continuationBytes(_, _)
continuationBytes(c, numExtraBytes) ==
    IF numExtraBytes - 1 >= 0
    THEN <<BitOr(128, (c \div Pow2((numExtraBytes - 1) * 6)) % 64)>>
           \o continuationBytes(c, numExtraBytes - 1)
    ELSE <<>>

\* appendUTF8 (target, charToWrite): target with the bytes added; (char) keeps
\* the low eight bits
appendUTF8(target, c) ==
    IF c >= 128
    THEN LET numExtraBytes == 1 + (IF c >= 2048 THEN 1 + (IF c >= 65536 THEN 1 ELSE 0)
                                   ELSE 0)
             lead == BitOr(255 * Pow2(7 - numExtraBytes),
                           c \div Pow2(numExtraBytes * 6)) % 256
         IN  target \o <<lead>> \o continuationBytes(c, numExtraBytes)
    ELSE Append(target, c)

\* the for (int i = 4; --i >= 0;) of the 'u' case: c and the cursor after it;
\* bad is set where a digit value is negative, with the cursor after that
\* character
RECURSIVE unicodeEscape(_, _, _, _)
unicodeEscape(text, p, i, c) ==
    IF i - 1 >= 0
    THEN LET digitValue == getHexDigitValue(At(text, p))
         IN  IF digitValue < 0 THEN [bad |-> TRUE, input |-> p + 1, c |-> c]
             ELSE unicodeEscape(text, p + 1, i - 1, c * 16 + digitValue)
    ELSE [bad |-> FALSE, input |-> p, c |-> c]

escapedChar(c) ==
    CASE c = Ch("a") -> 7
      [] c = Ch("b") -> 8
      [] c = Ch("f") -> 12
      [] c = Ch("n") -> 10
      [] c = Ch("r") -> 13
      [] c = Ch("t") -> 9
      [] OTHER -> c

\* the for (;;) of parseStringLiteral; the cursor is s.input
RECURSIVE stringBody(_, _)
stringBody(s, quoteChar) ==
    LET c == At(s.text, s.input)
        s1 == [s EXCEPT !.input = @ + 1]
    IN  IF c = quoteChar THEN s1
        ELSE IF c = Ch("\\")
        THEN LET c2 == At(s1.text, s1.input)
                 s2 == [s1 EXCEPT !.input = @ + 1]
             IN  IF c2 = Ch("u")
                 THEN LET u == unicodeEscape(s2.text, s2.input, 4, 0)
                          s3 == [s2 EXCEPT !.input = u.input]
                      IN  IF u.bad
                          THEN Throw([s3 EXCEPT !.location = s3.input],
                                     "errorInEscapeCode")
                          ELSE IF u.c = 0
                          THEN Throw(s3, "endOfInputInStringConstant")
                          ELSE stringBody([s3 EXCEPT !.currentStringValue =
                                              appendUTF8(@, u.c)], quoteChar)
                 ELSE IF escapedChar(c2) = 0
                 THEN Throw(s2, "endOfInputInStringConstant")
                 ELSE stringBody([s2 EXCEPT !.currentStringValue =
                                     appendUTF8(@, escapedChar(c2))], quoteChar)
        ELSE IF c = 0 THEN Throw(s1, "endOfInputInStringConstant")
        ELSE stringBody([s1 EXCEPT !.currentStringValue = appendUTF8(@, c)],
                        quoteChar)

\* parseStringLiteral after checkCharacterImmediatelyAfterLiteral
parseStringLiteral_checked(s2) == IF Failed(s2) THEN s2 ELSE Return(s2, TRUE)

\* ... after the loop
parseStringLiteral_closed(s1) ==
    IF Failed(s1) THEN s1
    ELSE parseStringLiteral_checked(checkCharacterImmediatelyAfterLiteral(s1))

\* parseStringLiteral without currentStringValue = {}
parseStringLiteral_keepsValue(s, quoteChar) ==
    IF quoteChar # Ch("\"") /\ quoteChar # Ch("'")
    THEN Return(s, FALSE)
    ELSE parseStringLiteral_closed(
             stringBody([s EXCEPT !.input = @ + 1], quoteChar))

parseStringLiteral(s, quoteChar) ==
    IF quoteChar # Ch("\"") /\ quoteChar # Ch("'")
    THEN Return(s, FALSE)
    ELSE parseStringLiteral_closed(
             stringBody([s EXCEPT !.input = @ + 1, !.currentStringValue = <<>>],
                        quoteChar))

\* ------------------------------------------------------------------------
\* The scanning engine
\* ------------------------------------------------------------------------
\* the while (isIdentifierBody (*++end)) of matchNextToken: the length of the
\* run, or more than maxIdentifierLength where it throws
\* identifierLength whose run goes on over letters only
RECURSIVE identifierLength_lettersOnly(_, _, _)
identifierLength_lettersOnly(text, end, len) ==
    IF isIdentifierAnywhere(At(text, end + 1))
    THEN IF len + 1 > maxIdentifierLength THEN len + 1
         ELSE identifierLength_lettersOnly(text, end + 1, len + 1)
    ELSE len

RECURSIVE identifierLength(_, _, _)
identifierLength(text, end, len) ==
    IF isIdentifierBody(At(text, end + 1))
    THEN IF len + 1 > maxIdentifierLength THEN len + 1
         ELSE identifierLength(text, end + 1, len + 1)
    ELSE len

\* -literalIntValue overflows for the most negative value: the build either
\* wraps or traps
UBOutcomes == {"wrap", "trap"}

\* negateLiteral with the integer branch lost: only floats are negated
negateLiteral_floatOnly(n, ub) ==
    IF n.ret = Token_literalInt32 \/ n.ret = Token_literalInt64
    THEN n
    ELSE [n EXCEPT !.literalDoubleValue = [@ EXCEPT !.neg = ~@]]

\* the negation of the token parseNumericLiteral (true) has just produced
negateLiteral(n, ub) ==
    IF n.ret = Token_literalInt32 \/ n.ret = Token_literalInt64
    THEN IF n.literalIntValue = Int64Min /\ ub = "trap"
         THEN Throw(n, "signedOverflowTrap")
         ELSE [n EXCEPT !.literalIntValue = SNegate(@)]
    ELSE [n EXCEPT !.literalDoubleValue = negateDouble(@)]

\* matchNextToken after parseNumericLiteral (true)
matchNextToken_negated(n, ub) == IF Failed(n) THEN n ELSE negateLiteral(n, ub)

\* matchNextToken_operator that answers eof for whatever it cannot classify
matchNextToken_operator_alwaysEof(f, currentChar, op) ==
    IF op.ret # NullToken
    THEN Return([f EXCEPT !.input = @ + op.len], op.ret)
    ELSE Return(f, Token_eof)

\* ... from OperatorList::match on: op is its result
matchNextToken_operator(f, currentChar, op) ==
    IF op.ret # NullToken
    THEN Return([f EXCEPT !.input = @ + op.len], op.ret)
    ELSE IF currentChar = Ch("_") /\ isIdentifierBody(At(f.text, f.input + 1))
    THEN Throw(f, "noLeadingUnderscoreAllowed")
    ELSE IF ~isEmpty(f.text, f.input)
    THEN Throw(f, "illegalCharacter")
    ELSE Return(f, Token_eof)

\* ... after currentChar == '.' && parseFloatLiteral()
matchNextToken_float(f, currentChar) ==
    IF Failed(f) THEN f
    ELSE IF f.ret THEN Return(f, f.literalType)
    ELSE matchNextToken_operator(f, currentChar, OperatorMatch(f.text, f.input))

\* ... after parseStringLiteral (currentChar)
matchNextToken_string(str, currentChar) ==
    IF Failed(str) THEN str
    ELSE IF str.ret THEN Return(str, Token_literalString)
    ELSE matchNextToken_float(IF currentChar = Ch(".") THEN parseFloatLiteral(str)
                              ELSE Return(str, FALSE),
                              currentChar)

matchNextToken(s, ub) ==
    LET currentChar == At(s.text, s.input) IN
    IF isIdentifierStart(currentChar)
    THEN LET len == identifierLength(s.text, s.input, 1)
             keyword == KeywordMatch(s.text, s.input, len)
         IN  IF len > maxIdentifierLength THEN Throw(s, "identifierTooLong")
             ELSE IF keyword # NullToken
             THEN Return([s EXCEPT !.input = @ + len], keyword)
             ELSE Return([s EXCEPT !.currentStringValue =
                                      SubSeq(s.text, s.input, s.input + len - 1),
                                   !.input = @ + len], Token_identifier)
    ELSE IF isDigit(s.text, s.input)
    THEN parseNumericLiteral(s, FALSE)
    ELSE IF currentChar = Ch("-") /\ isDigit(s.text, s.input + 1)
    THEN matchNextToken_negated(
             parseNumericLiteral([s EXCEPT !.input = @ + 1], TRUE), ub)
    ELSE matchNextToken_string(parseStringLiteral(s, currentChar), currentChar)

\* lineCommentEnd that passes over the two slashes only
lineCommentEnd_slashesOnly(text, p) == p + 2

\* input.find ("\n") of a line comment opened at p
lineCommentEnd(text, p) == find(text, p, Str(<<"\n">>))

\* blockCommentEnd that searches from the opener's '*' on, so that the
\* opener's own '*' can close the comment
blockCommentEnd_fromStar(text, p) == find(text, p + 1, Str(<<"*", "/">>))

\* (input + 2).find ("*/") of a block comment opened at p
blockCommentEnd(text, p) == find(text, p + 2, Str(<<"*", "/">>))

RECURSIVE skipWhitespaceAndComments(_)
skipWhitespaceAndComments(s) ==
    LET s1 == [s EXCEPT !.input = findEndOfWhitespace(s.text, s.input)] IN
    IF At(s1.text, s1.input) = Ch("/")
    THEN LET c2 == At(s1.text, s1.input + 1) IN
         IF c2 = Ch("/")
         THEN skipWhitespaceAndComments(
                  [s1 EXCEPT !.input = lineCommentEnd(s1.text, s1.input)])
         ELSE IF c2 = Ch("*")
         THEN LET s2 == [s1 EXCEPT !.location = s1.input,
                                   !.input = blockCommentEnd(s1.text, s1.input)]
              IN  IF isEmpty(s2.text, s2.input)
                  THEN Throw(s2, "unterminatedComment")
                  ELSE skipWhitespaceAndComments([s2 EXCEPT !.input = @ + 2])
         ELSE s1
    ELSE s1

\* skip() after matchNextToken: last is the token type that was current
skip_matched(m, last) ==
    IF Failed(m) THEN m
    ELSE Return([m EXCEPT !.currentType = m.ret], last)

\* skip_trivia without the assignment to location.location
skip_trivia_keepsLocation(s1, ub) ==
    IF Failed(s1) THEN s1
    ELSE skip_matched(matchNextToken(s1, ub), s1.currentType)

\* ... after skipWhitespaceAndComments
skip_trivia(s1, ub) ==
    IF Failed(s1) THEN s1
    ELSE skip_matched(matchNextToken([s1 EXCEPT !.location = s1.input], ub),
                      s1.currentType)

\* skip that scans from the start of the current token again
skip_fromLocation(s, ub) ==
    skip_trivia(skipWhitespaceAndComments([s EXCEPT !.input = s.location]), ub)

\* skip(): ret is the token type that was current before
skip(s, ub) == skip_trivia(skipWhitespaceAndComments(s), ub)

\* ------------------------------------------------------------------------
\* State
\* ------------------------------------------------------------------------
VARIABLES text, input, location, currentType, literalIntValue,
          literalDoubleValue, currentStringValue, literalType, err

vars == <<text, input, location, currentType, literalIntValue,
          literalDoubleValue, currentStringValue, literalType, err>>

Self ==
    [text |-> text, input |-> input, location |-> location,
     currentType |-> currentType, literalIntValue |-> literalIntValue,
     literalDoubleValue |-> literalDoubleValue,
     currentStringValue |-> currentStringValue, literalType |-> literalType,
     err |-> err, ret |-> FALSE]

Apply(s) ==
    /\ text' = s.text
    /\ input' = s.input
    /\ location' = s.location
    /\ currentType' = s.currentType
    /\ literalIntValue' = s.literalIntValue
    /\ literalDoubleValue' = s.literalDoubleValue
    /\ currentStringValue' = s.currentStringValue
    /\ literalType' = s.literalType
    /\ err' = s.err

\* the members as the constructor's initialiser list leaves them, over code
Fresh(code) ==
    [text |-> code, input |-> 1, location |-> 1, currentType |-> NullToken,
     literalIntValue |-> U64(0),
     literalDoubleValue |-> [neg |-> FALSE, mant |-> 0, exp |-> 0],
     currentStringValue |-> <<>>, literalType |-> NullToken,
     err |-> NoError, ret |-> FALSE]

InitOver(codes) ==
    /\ text \in codes
    /\ input = 1
    /\ location = 1
    /\ currentType = NullToken
    /\ literalIntValue = U64(0)
    /\ literalDoubleValue = [neg |-> FALSE, mant |-> 0, exp |-> 0]
    /\ currentStringValue = <<>>
    /\ literalType = NullToken
    /\ err = NoError

\* Tokeniser (code): the constructor scans the first token
Tokeniser ==
    /\ currentType = NullToken
    /\ err = NoError
    /\ \E ub \in UBOutcomes : Apply(skip(Fresh(text), ub))

\* skip(): consume the current token and scan the next
Skip ==
    /\ currentType # NullToken
    /\ err = NoError
    /\ \E ub \in UBOutcomes : Apply(skip(Self, ub))

Next == Tokeniser \/ Skip

\* ------------------------------------------------------------------------
\* The token stream of a whole text
\* ------------------------------------------------------------------------
IntKinds == {Token_literalInt32, Token_literalInt64}

FloatKinds == {Token_literalFloat32, Token_literalFloat64}

LiteralKinds == IntKinds \cup FloatKinds \cup {Token_literalString}

\* the current token: its type and the value field that is valid for it
CurrentToken(s) ==
    [type |-> s.currentType,
     value |-> IF s.currentType \in IntKinds THEN s.literalIntValue
               ELSE IF s.currentType \in FloatKinds THEN s.literalDoubleValue
               ELSE IF s.currentType \in {Token_literalString, Token_identifier}
               THEN s.currentStringValue
               ELSE <<>>]

\* the tokens successive skip() calls yield from s on, up to eof or the error
RECURSIVE tokensFrom(_)
tokensFrom(s) ==
    LET n == skip(s, "wrap") IN
    IF Failed(n) THEN << [type |-> n.err, value |-> <<>>] >>
    ELSE IF n.currentType = Token_eof THEN << CurrentToken(n) >>
    ELSE << CurrentToken(n) >> \o tokensFrom(n)

Tokens(code) == tokensFrom(Fresh(code))


\* ------------------------------------------------------------------------
\* Specifications: the engine over bounded sets of source texts
\* ------------------------------------------------------------------------
\* every text of at most n characters of A
Strings(A, n) == UNION {[1..k -> A] : k \in 0..n}

MaxFloatLen == 4

FloatChars == {Ch(c) : c \in {"0", "1", "8", ".", "e", "+", "-", " "}}

InitFloat == InitOver(Strings(FloatChars, MaxFloatLen))

\* numeric texts: digits, points, exponents, signs
SpecFloat == InitFloat /\ [][Next]_vars

\* ------------------------------------------------------------------------
\* Shapes of the text at a position, as the specification words them
\* ------------------------------------------------------------------------
\* where the next token starts: the cursor after whitespace and comments
NextTokenStart == skipWhitespaceAndComments(Self).input

\* the first character of the number of a token that starts at p
LiteralStart(p) ==
    IF At(text, p) = Ch("-") /\ isDigit(text, p + 1) THEN p + 1 ELSE p

\* '0' immediately followed by another decimal digit
ZeroDigitAt(p) == At(text, p) = Ch("0") /\ isDigit(text, p + 1)

\* a decimal point with a digit before or after it, or an exponent marker,
\* optionally signed, followed by a digit
FloatRunAt(p) ==
    LET d == endOfDigits(text, p)
        hasPoint == At(text, d) = Ch(".")
        m == IF hasPoint THEN endOfDigits(text, d + 1) ELSE d
        digits == (d - p) + (IF hasPoint THEN m - (d + 1) ELSE 0)
        marker == At(text, m) \in {Ch("e"), Ch("E")}
        signed == At(text, m + 1) \in {Ch("+"), Ch("-")}
        exponent == marker /\ (isDigit(text, m + 1)
                                 \/ (signed /\ isDigit(text, m + 2)))
    IN  digits > 0 /\ (hasPoint \/ exponent)

\* ------------------------------------------------------------------------
\* C1
\* ------------------------------------------------------------------------
\* C1, as stated: no token of any kind is ever produced from text that starts
\* with '0' followed by another digit, float shapes such as 01.5 included.
C1_NoTokenFromZeroDigit ==
    ~(/\ err = NoError
      /\ currentType # NullToken
      /\ ZeroDigitAt(LiteralStart(location)))

\* C1, amended: when the next token starts with '0' followed by another
\* digit, the scan ends in a fatal error, unless the run continues with a
\* point or an exponent and a float literal is produced; an integer literal
\* is never produced.
C1_OctalRejected ==
    [][(/\ err = NoError
        /\ ZeroDigitAt(LiteralStart(NextTokenStart)))
       => \/ err' # NoError
          \/ /\ currentType' \in FloatKinds
             /\ FloatRunAt(LiteralStart(NextTokenStart))]_vars

\* C1, witness: a '0'-digit run was met and rejected as an octal literal
C1_Witness ==
    /\ err = "noOctalLiterals"
    /\ ZeroDigitAt(LiteralStart(location))

\* ------------------------------------------------------------------------
\* C7
\* ------------------------------------------------------------------------
\* C7, as stated: a numeric token is a float literal exactly when its run has
\* a point with a digit beside it or an exponent followed by a digit.
C7_FloatIffShape ==
    (/\ err = NoError
     /\ currentType \in IntKinds \cup FloatKinds)
    => (currentType \in FloatKinds <=> FloatRunAt(LiteralStart(location)))

\* ------------------------------------------------------------------------
\* C5
\* ------------------------------------------------------------------------
MaxSuffixLen == 4

SuffixChars == {Ch(c) : c \in {"1", "a", "L", "f", ".", "'", "_", " "}}

InitSuffix == InitOver(Strings(SuffixChars, MaxSuffixLen))

\* literals with kind suffixes and characters glued to them
SpecSuffix == InitSuffix /\ [][Next]_vars

\* a decimal run at p glued to a letter that starts no suffix, prefix or
\* exponent, as in 123abc: the position of that letter, or 0
PlainGluedAt(p) ==
    LET d == endOfDigits(text, p)
    IN  IF /\ d > p
           /\ ~ZeroDigitAt(p)
           /\ isIdentifierAnywhere(At(text, d))
           /\ At(text, d) \notin {Ch(c) : c \in {"i", "L", "f", "e", "E", "x", "X",
                                                 "b", "B"}}
        THEN d ELSE 0

\* a string at p without escapes, glued to an identifier character after its
\* closing quote: the position of that character, or 0
StringGluedAt(p) ==
    LET closers == {q \in (p + 1)..Len(text) :
                       /\ At(text, q) = At(text, p)
                       /\ \A k \in (p + 1)..(q - 1) :
                              At(text, k) \notin {At(text, p), Ch("\\")}}
    IN  IF /\ At(text, p) \in {Ch("\""), Ch("'")}
           /\ closers # {}
           /\ isIdentifierBody(At(text, 1 + CHOOSE q \in closers : TRUE))
        THEN 1 + CHOOSE q \in closers : TRUE ELSE 0

\* C5: a literal token is never left with a digit or identifier character
\* directly after it; the unrecognised-suffix error points at such a
\* character; and a number or string glued to one ends in that error.
C5_GluedSuffixIsFatal ==
    [][/\ (err' = NoError /\ currentType' \in LiteralKinds)
            => ~isIdentifierBody(At(text', input'))
       /\ err' = "unrecognisedLiteralSuffix"
            => /\ isIdentifierBody(At(text', location'))
               /\ currentType' = currentType
       /\ (err = NoError /\ PlainGluedAt(LiteralStart(NextTokenStart)) # 0)
            => /\ err' = "unrecognisedLiteralSuffix"
               /\ location' = PlainGluedAt(LiteralStart(NextTokenStart))
       /\ (err = NoError /\ StringGluedAt(NextTokenStart) # 0)
            => /\ err' = "unrecognisedLiteralSuffix"
               /\ location' = StringGluedAt(NextTokenStart)]_vars

\* C5, witness: a number with a kind suffix and a letter glued to it was
\* rejected at that letter
C5_Witness ==
    /\ err = "unrecognisedLiteralSuffix"
    /\ location = 3
    /\ SubSeq(text, 1, 3) = Str(<<"1", "L", "a">>)

\* ------------------------------------------------------------------------
\* C6
\* ------------------------------------------------------------------------
MaxMinusLen == 5

MinusChars == {Ch(c) : c \in {"a", " ", "-", "1", "."}}

InitMinus == InitOver(Strings(MinusChars, MaxMinusLen))

\* minus signs before digits, points, blanks and identifiers
SpecMinus == InitMinus /\ [][Next]_vars

\* a + b = 0 in 64 bits
SumIsZero(a, b) ==
    LET p1 == a[1] + b[1]
        p2 == a[2] + b[2] + p1 \div Limb
        p3 == a[3] + b[3] + p2 \div Limb
        p4 == a[4] + b[4] + p3 \div Limb
    IN  p1 % Limb = 0 /\ p2 % Limb = 0 /\ p3 % Limb = 0 /\ p4 % Limb = 0

\* the engine after scanning, on its own, the text that follows position p
ScanOfRest(p) == skip(Fresh(SubSeq(text, p + 1, Len(text))), "wrap")

\* C6: a token that starts at a '-' directly before a digit is one numeric
\* literal, of the kind and extent of the literal that follows the '-' and
\* of the negated value; a token that starts at any other '-' is an operator.
C6_MinusLookahead ==
    (/\ err = NoError
     /\ currentType # NullToken
     /\ At(text, location) = Ch("-"))
    => IF isDigit(text, location + 1)
       THEN LET r == ScanOfRest(location)
            IN  /\ currentType \in IntKinds \cup FloatKinds
                /\ ~Failed(r)
                     => /\ currentType = r.currentType
                        /\ input = location + r.input
                        /\ currentType \in IntKinds
                             => SumIsZero(literalIntValue, r.literalIntValue)
                        /\ currentType \in FloatKinds
                             => /\ literalDoubleValue.mant = r.literalDoubleValue.mant
                                /\ literalDoubleValue.exp = r.literalDoubleValue.exp
                                /\ literalDoubleValue.neg # r.literalDoubleValue.neg
       ELSE /\ IsOperatorToken(currentType)
            /\ currentType \notin LiteralKinds
            /\ input > location

\* C6, witness: in "a -1" the token after the identifier is the literal -1
C6_Witness ==
    /\ text = Str(<<"a", " ", "-", "1">>)
    /\ err = NoError
    /\ location = 3
    /\ currentType = Token_literalInt32
    /\ literalIntValue = UNot(U64(0))

\* ------------------------------------------------------------------------
\* Integer texts around the 16, 31, 32, 63 and 64 bit boundaries
\* ------------------------------------------------------------------------
\* numbers of up to 80 bits, five limbs, least significant first
BigZero == <<0, 0, 0, 0, 0>>

\* n + d for a small d of either sign, n + d >= 0
BigAddSmall(n, d) ==
    LET p1 == n[1] + d
        c1 == IF p1 < 0 THEN -1 ELSE p1 \div Limb
        p2 == n[2] + c1
        c2 == IF p2 < 0 THEN -1 ELSE p2 \div Limb
        p3 == n[3] + c2
        c3 == IF p3 < 0 THEN -1 ELSE p3 \div Limb
        p4 == n[4] + c3
        c4 == IF p4 < 0 THEN -1 ELSE p4 \div Limb
        p5 == n[5] + c4
    IN  <<p1 % Limb, p2 % Limb, p3 % Limb, p4 % Limb, p5 % Limb>>

BigDivSmall(n, m) ==
    LET n5 == n[5]
        n4 == (n5 % m) * Limb + n[4]
        n3 == (n4 % m) * Limb + n[3]
        n2 == (n3 % m) * Limb + n[2]
        n1 == (n2 % m) * Limb + n[1]
    IN  <<n1 \div m, n2 \div m, n3 \div m, n4 \div m, n5 \div m>>

BigModSmall(n, m) ==
    ((((((((n[5] % m) * Limb + n[4]) % m) * Limb + n[3]) % m) * Limb + n[2]) % m)
        * Limb + n[1]) % m

\* a <= b
BigLeq(a, b) ==
    a = b \/ \E i \in 1..5 : a[i] < b[i] /\ \A j \in (i+1)..5 : a[j] = b[j]

DigitChars == Str(<<"0", "1", "2", "3", "4", "5", "6", "7", "8", "9",
                    "a", "b", "c", "d", "e", "f">>)

\* n written in the given base, without leading zeros
RECURSIVE DigitsOf(_, _)
DigitsOf(n, base) ==
    IF BigLeq(n, BigAddSmall(BigZero, base - 1))
    THEN <<DigitChars[n[1] + 1]>>
    ELSE Append(DigitsOf(BigDivSmall(n, base), base),
                DigitChars[BigModSmall(n, base) + 1])

Pow2_16 == <<0, 1, 0, 0, 0>>

Pow2_31 == <<0, Limb \div 2, 0, 0, 0>>

Pow2_32 == <<0, 0, 1, 0, 0>>

Pow2_63 == <<0, 0, 0, Limb \div 2, 0>>

Pow2_64 == <<0, 0, 0, 0, 1>>

MaxDelta == 1

\* the numbers within MaxDelta of a boundary
IntValues ==
    {BigAddSmall(BigZero, d) : d \in 0..(10 + MaxDelta)}
      \cup {BigAddSmall(b, d) : b \in {Pow2_16, Pow2_31, Pow2_32, Pow2_63, Pow2_64},
                                d \in (-MaxDelta)..MaxDelta}

IntSuffixes ==
    {<<>>, Str(<<"i", "3", "2">>), Str(<<"_", "i", "3", "2">>),
     Str(<<"i", "6", "4">>), Str(<<"_", "i", "6", "4">>), Str(<<"L">>),
     Str(<<"_", "L">>)}

BasePrefix(base) ==
    CASE base = 16 -> Str(<<"0", "x">>)
      [] base = 2 -> Str(<<"0", "b">>)
      [] OTHER -> <<>>

\* the text of the literal: sign, prefix, digits, suffix
IntText(neg, base, n, suffix) ==
    (IF neg THEN Str(<<"-">>) ELSE <<>>) \o BasePrefix(base) \o DigitsOf(n, base)
        \o suffix

IntTexts ==
    {IntText(neg, base, n, suffix) :
        neg \in BOOLEAN, base \in {2, 10, 16}, n \in IntValues, suffix \in IntSuffixes}

InitInt == InitOver(IntTexts)

\* one integer literal of any base, sign and suffix
SpecInt == InitInt /\ [][Next]_vars

\* n * m, m small
BigMulSmall(n, m) ==
    LET p1 == n[1] * m
        p2 == n[2] * m + p1 \div Limb
        p3 == n[3] * m + p2 \div Limb
        p4 == n[4] * m + p3 \div Limb
        p5 == n[5] * m + p4 \div Limb
    IN  <<p1 % Limb, p2 % Limb, p3 % Limb, p4 % Limb, p5 % Limb>>

\* the text read back as sign, prefix, digit run and suffix
TextNegative == At(text, 1) = Ch("-")

TextNumberStart == IF TextNegative THEN 2 ELSE 1

TextBase ==
    IF startsWith(text, TextNumberStart, Str(<<"0", "x">>)) THEN 16
    ELSE IF startsWith(text, TextNumberStart, Str(<<"0", "b">>)) THEN 2
    ELSE 10

TextRunStart == TextNumberStart + (IF TextBase = 10 THEN 0 ELSE 2)

IsDigitOfBase(c, base) == getHexDigitValue(c) >= 0 /\ getHexDigitValue(c) < base

RECURSIVE RunEnd(_, _)
RunEnd(p, base) ==
    IF IsDigitOfBase(At(text, p), base) THEN RunEnd(p + 1, base) ELSE p

\* the number the digits text[p .. q-1] spell in the base, after acc (a limb
\* is below Limb: reading acc here has the sum computed digit by digit)
RECURSIVE RunValue(_, _, _, _)
RunValue(p, q, base, acc) ==
    IF p >= q \/ acc[5] >= Limb THEN acc
    ELSE RunValue(p + 1, q, base,
                  BigAddSmall(BigMulSmall(acc, base), getHexDigitValue(At(text, p))))

TextRunEnd == RunEnd(TextRunStart, TextBase)

TextValue == RunValue(TextRunStart, TextRunEnd, TextBase, BigZero)

TextSuffix == SubSeq(text, TextRunEnd, Len(text))

\* the int64_t that holds n, or -n: defined for -2^63 <= value < 2^63
Int64Of(neg, n) ==
    IF neg /\ n # BigZero
    THEN UNot(SubSeq(BigAddSmall(n, -1), 1, 4))
    ELSE SubSeq(n, 1, 4)

FitsInt64(neg, n) ==
    IF neg THEN BigLeq(n, Pow2_63) ELSE BigLeq(n, BigAddSmall(Pow2_63, -1))

FitsInt32(neg, n) ==
    IF neg THEN BigLeq(n, Pow2_31) ELSE BigLeq(n, BigAddSmall(Pow2_31, -1))

\* an int64_t within [-2^31, 2^31 - 1]
InInt32Range(x) ==
    IF SNeg(x) THEN ~ULess(x, <<0, Limb \div 2, Limb - 1, Limb - 1>>)
    ELSE ~UGreater(x, <<Limb - 1, Limb \div 2 - 1, 0, 0>>)

\* ------------------------------------------------------------------------
\* C2
\* ------------------------------------------------------------------------
\* C2, as stated: no 32-bit integer literal token ever carries a value
\* outside [-2^31, 2^31 - 1].
C2_Int32TokenInRange ==
    (err = NoError /\ currentType = Token_literalInt32)
    => InInt32Range(literalIntValue)

\* ------------------------------------------------------------------------
\* C3
\* ------------------------------------------------------------------------
\* C3, as stated: a hex or binary literal that becomes an integer token has
\* the value of its digit run (negated after a '-'), and a digit run above
\* 2^64 - 1 is rejected.
C3_HexBinaryValue ==
    (TextBase \in {2, 16} /\ currentType # NullToken)
    => /\ (err = NoError /\ currentType \in IntKinds)
            => /\ FitsInt64(TextNegative, TextValue)
               /\ literalIntValue = Int64Of(TextNegative, TextValue)
       /\ ~BigLeq(TextValue, BigAddSmall(Pow2_64, -1)) => err # NoError

MaxPieces == 4

TriviaPieces ==
    {Str(<<"e">>), Str(<<"1">>), Str(<<".">>), Str(<<"/">>), Str(<<"*">>),
     Str(<<" ">>), Str(<<"\n">>), Str(<<"/", "*">>), Str(<<"*", "/">>)}

\* every text made of at most n of the pieces
RECURSIVE Concatenations(_, _)
Concatenations(pieces, n) ==
    IF n = 0 THEN {<<>>}
    ELSE LET shorter == Concatenations(pieces, n - 1)
         IN  shorter \cup {t \o q : t \in shorter, q \in pieces}

InitTrivia == InitOver(Concatenations(TriviaPieces, MaxPieces))

\* identifiers, numbers and operators among blanks, line and block comments
SpecTrivia == InitTrivia /\ [][Next]_vars

\* the whitespace and comments a text may get between two tokens
Trivia ==
    {Str(<<" ">>), Str(<<"\n">>), Str(<<"/", "*", "*", "/">>),
     Str(<<"/", "/", "\n">>), Str(<<"/", "/", "e", "\n">>),
     Str(<<"/", "*", "e", "*", "/", " ">>)}

\* the places between two adjacent tokens from s on: the cursor after the
\* first and the location of the second
RECURSIVE gapsFrom(_)
gapsFrom(s) ==
    LET n == skip(s, "wrap") IN
    IF Failed(n) \/ n.currentType = Token_eof THEN {}
    ELSE (IF s.currentType # NullToken THEN {<<s.input, n.location>>} ELSE {})
           \cup gapsFrom(n)

Gaps(code) == gapsFrom(Fresh(code))

\* code with w put in before position p
Insert(code, p, w) ==
    SubSeq(code, 1, p - 1) \o w \o SubSeq(code, p, Len(code))

\* code with w in the place of code[p .. q-1]
Replace(code, p, q, w) ==
    SubSeq(code, 1, p - 1) \o w \o SubSeq(code, q, Len(code))

FirstCloser(k) ==
    LET closers == {j \in k..(Len(text) - 1) :
                       text[j] = Ch("*") /\ text[j + 1] = Ch("/")}
    IN  IF closers = {} THEN 0
        ELSE CHOOSE j \in closers : \A i \in closers : j <= i

\* the first newline at or after position k, or the end of the text
EndOfLine(k) ==
    LET ends == {j \in k..(Len(text) + 1) : At(text, j) \in {Ch("\n"), 0}}
    IN  CHOOSE j \in ends : \A i \in ends : j <= i

\* the "/*" without a later "*/" that is met when whitespace and comments are
\* passed over from position p on, or 0 if a token or the end is met first
RECURSIVE UnclosedOpenerFrom(_)
UnclosedOpenerFrom(p) ==
    IF p > Len(text) THEN 0
    ELSE IF isWhitespace(text[p]) THEN UnclosedOpenerFrom(p + 1)
    ELSE IF text[p] = Ch("/") /\ At(text, p + 1) = Ch("/")
    THEN UnclosedOpenerFrom(EndOfLine(p + 2))
    ELSE IF text[p] = Ch("/") /\ At(text, p + 1) = Ch("*")
    THEN IF FirstCloser(p + 2) = 0 THEN p
         ELSE UnclosedOpenerFrom(FirstCloser(p + 2) + 2)
    ELSE 0

\* C9: a scan that meets a "/*" without a later "*/" while passing over
\* whitespace and comments ends in the unterminated-comment error, located
\* at that "/*", with the current token and its values left as they were;
\* and the error is raised in no other case.
C9_UnterminatedComment ==
    [][err = NoError
       => /\ UnclosedOpenerFrom(input) # 0
               => /\ err' = "unterminatedComment"
                  /\ location' = UnclosedOpenerFrom(input)
                  /\ currentType' = currentType
                  /\ literalIntValue' = literalIntValue
                  /\ literalDoubleValue' = literalDoubleValue
                  /\ currentStringValue' = currentStringValue
          /\ err' = "unterminatedComment" => UnclosedOpenerFrom(input) # 0]_vars

\* C9, witness: after a closed comment and a token, a "/*" that nothing
\* closes was reported at its own position
C9_Witness ==
    /\ err = "unterminatedComment"
    /\ currentType = Token_identifier
    /\ text = Str(<<"/", "*", "*", "/", "e", "/", "*">>)
    /\ location = 6

\* ------------------------------------------------------------------------
\* String literals with a \u escape
\* ------------------------------------------------------------------------
MaxEscapeDigits == 4

EscapeDigits == {Ch(c) : c \in {"0", "7", "8", "f", "F", "g"}}

\* a quote, an optional plain character, \u and up to MaxEscapeDigits
\* characters, the same quote
EscapeTexts ==
    {<<q>> \o pre \o Str(<<"\\", "u">>) \o d \o <<q>> :
        q \in {Ch("\""), Ch("'")},
        pre \in {<<>>, Str(<<"a">>)},
        d \in Strings(EscapeDigits, MaxEscapeDigits)}

InitEscape == InitOver(EscapeTexts)

SpecEscape == InitEscape /\ [][Next]_vars

\* where the four digits of the escape start
EscapeStart == IF text[2] = Ch("\\") THEN 4 ELSE 5

EscapePrefix == SubSeq(text, 2, EscapeStart - 3)

\* the code point the four characters at EscapeStart spell
EscapeCodepoint ==
    LET h(i) == getHexDigitValue(At(text, EscapeStart + i))
    IN  ((h(0) * 16 + h(1)) * 16 + h(2)) * 16 + h(3)

EscapeIsHex ==
    \A i \in 0..3 : getHexDigitValue(At(text, EscapeStart + i)) >= 0

\* the UTF-8 encoding of a code point below 0x10000
UTF8Of(cp) ==
    IF cp < 128 THEN <<cp>>
    ELSE IF cp < 2048 THEN <<192 + (cp \div 64), 128 + (cp % 64)>>
    ELSE <<224 + (cp \div 4096), 128 + ((cp \div 64) % 64), 128 + (cp % 64)>>

\* ------------------------------------------------------------------------
\* C10
\* ------------------------------------------------------------------------
\* C10, as stated: \u with four hex digits, of any value 0x0000 to 0xFFFF, is
\* accepted and adds the UTF-8 bytes of that code point to the string value;
\* a character that is no hex digit among the four is the escape-code error.
C10_UnicodeEscape ==
    (currentType # NullToken \/ err # NoError)
    => IF EscapeIsHex
       THEN Len(text) = EscapeStart + 4
            => /\ err = NoError
               /\ currentStringValue = EscapePrefix \o UTF8Of(EscapeCodepoint)
       ELSE err = "errorInEscapeCode"

\* ------------------------------------------------------------------------
\* C11
\* ------------------------------------------------------------------------
MaxStringLen == 5

StringChars == {Ch(c) : c \in {"\"", "'", "\\", "a", "n", " "}}

InitString == InitOver(Strings(StringChars, MaxStringLen))

\* quotes of both kinds, backslashes, letters and blanks
SpecString == InitString /\ [][Next]_vars

\* the character a backslash followed by c stands for (no \u here)
Unescaped(c) ==
    CASE c = Ch("n") -> 10
      [] c = Ch("a") -> 7
      [] OTHER -> c

\* reading a literal opened with quote q from position i on, acc read so far:
\* the position of the first unescaped q and the content before it, or
\* closed = FALSE where the text ends first
RECURSIVE ContentFrom(_, _, _)
ContentFrom(i, q, acc) ==
    IF i > Len(text) THEN [closed |-> FALSE, end |-> 0, value |-> acc]
    ELSE IF text[i] = q THEN [closed |-> TRUE, end |-> i, value |-> acc]
    ELSE IF text[i] = Ch("\\")
    THEN IF i + 1 > Len(text) THEN [closed |-> FALSE, end |-> 0, value |-> acc]
         ELSE ContentFrom(i + 2, q, Append(acc, Unescaped(text[i + 1])))
    ELSE ContentFrom(i + 1, q, Append(acc, text[i]))

\* C11: a token that starts with a quote ends at the first later unescaped
\* occurrence of the same quote, its value is the decoded content between
\* the two and nothing else; where the text ends before that quote the scan
\* ends in the end-of-input-in-string-constant error.  (A character glued to
\* the closing quote is the unrecognised-suffix error.)
C11_StringEndsAtSameQuote ==
    [][(/\ err = NoError
        /\ At(text, NextTokenStart) \in {Ch("\""), Ch("'")})
       => LET r == ContentFrom(NextTokenStart + 1, At(text, NextTokenStart), <<>>)
          IN  IF ~r.closed THEN err' = "endOfInputInStringConstant"
              ELSE IF isIdentifierBody(At(text, r.end + 1))
              THEN err' = "unrecognisedLiteralSuffix"
              ELSE /\ err' = NoError
                   /\ currentType' = Token_literalString
                   /\ location' = NextTokenStart
                   /\ input' = r.end + 1
                   /\ currentStringValue' = r.value]_vars

\* C11, witness: after the identifier a, the literal "\"" was scanned: its
\* value is the one escaped quote
C11_Witness ==
    /\ text = Str(<<"a", "\"", "\\", "\"", "\"">>)
    /\ currentType = Token_literalString
    /\ currentStringValue = <<Ch("\"")>>

\* ------------------------------------------------------------------------
\* The calls a parser makes on the engine
\* ------------------------------------------------------------------------
\* matches (TokenType)
matches(s, t) == s.currentType = t

\* matches (const char* name)
matchesName(s, name) ==
    matches(s, Token_identifier) /\ s.currentStringValue = name

\* matchIf that advances whether or not the token matches
matchIf_always(s, expected, ub) == Return(skip(s, ub), TRUE)

matchIf(s, expected, ub) ==
    IF matches(s, expected) THEN Return(skip(s, ub), TRUE)
    ELSE Return(s, FALSE)

\* matchAndReplaceIf that also advances when it re-tags
matchAndReplaceIf_consuming(s, expected, replaceWith) ==
    IF matches(s, expected)
    THEN Return([skip(s, "wrap") EXCEPT !.currentType = replaceWith], TRUE)
    ELSE Return(s, FALSE)

matchAndReplaceIf(s, expected, replaceWith) ==
    IF matches(s, expected)
    THEN Return([s EXCEPT !.currentType = replaceWith], TRUE)
    ELSE Return(s, FALSE)

\* Errors::foundWhenExpecting (found, expected)
foundWhenExpecting(found, expected) ==
    "foundWhenExpecting " \o found \o " " \o expected

\* expect after matchIf
expect_matched(m, expected) ==
    IF Failed(m) THEN m
    ELSE IF ~m.ret THEN Throw(m, foundWhenExpecting(m.currentType, expected))
    ELSE m

expect(s, expected, ub) == expect_matched(matchIf(s, expected, ub), expected)

getCurrentTokeniserPosition(s) == s.location

\* resetPosition that skips without moving the cursor back
resetPosition_noRewind(s, newPos, ub) == skip(s, ub)

resetPosition(s, newPos, ub) == skip([s EXCEPT !.input = newPos], ub)

\* the token types a parser asks for here
ParserTokens == {Token_identifier, "if", Token_literalInt32, Token_eof}

\* the positions getCurrentTokeniserPosition returns over successive skip()
\* calls from s on: what a parser can hold to come back to
RECURSIVE positionsFrom(_)
positionsFrom(s) ==
    LET n == skip(s, "wrap") IN
    IF Failed(n) THEN {}
    ELSE IF n.currentType = Token_eof THEN {getCurrentTokeniserPosition(n)}
    ELSE {getCurrentTokeniserPosition(n)} \cup positionsFrom(n)

Positions(code) == positionsFrom(Fresh(code))

MatchIf ==
    /\ currentType # NullToken
    /\ err = NoError
    /\ \E expected \in ParserTokens, ub \in UBOutcomes :
           Apply(matchIf(Self, expected, ub))

MatchAndReplaceIf ==
    /\ currentType # NullToken
    /\ err = NoError
    /\ \E expected \in ParserTokens, replaceWith \in ParserTokens :
           Apply(matchAndReplaceIf(Self, expected, replaceWith))

Expect ==
    /\ currentType # NullToken
    /\ err = NoError
    /\ \E expected \in ParserTokens, ub \in UBOutcomes :
           Apply(expect(Self, expected, ub))

\* resetPosition (p), p a position taken earlier
ResetPosition ==
    /\ currentType # NullToken
    /\ err = NoError
    /\ \E newPos \in Positions(text), ub \in UBOutcomes :
           Apply(resetPosition(Self, newPos, ub))

NextParser ==
    Tokeniser \/ Skip \/ MatchIf \/ MatchAndReplaceIf \/ Expect \/ ResetPosition

MaxParserLen == 4

ParserChars == {Ch(c) : c \in {"i", "f", "1", " ", "#"}}

InitParser == InitOver(Strings(ParserChars, MaxParserLen))

\* a parser making every call on identifiers, the keyword, numbers, blanks
\* and a character no token starts with
SpecParser == InitParser /\ [][NextParser]_vars

\* a state a parser can make a call in
Callable == currentType # NullToken /\ err = NoError

\* r differs from s in at most err and ret
SameEngine(r, s) == [r EXCEPT !.err = s.err, !.ret = s.ret] = s

\* ------------------------------------------------------------------------
\* C12
\* ------------------------------------------------------------------------
\* what expect does when the current token does not match: the error carries
\* the found and the expected type, and nothing else has changed
ExpectMismatch(r, expected) ==
    /\ r.err = foundWhenExpecting(currentType, expected)
    /\ SameEngine(r, Self)

\* C12, as stated: when the current token matches T, expect(T) performs one
\* advance and no error is raised; when it does not match, the
\* found-when-expecting error is raised with the engine as it was.
C12_ExpectNeverFailsOnMatch ==
    Callable =>
        \A expected \in ParserTokens, ub \in UBOutcomes :
            LET r == expect(Self, expected, ub)
            IN  IF matches(Self, expected)
                THEN /\ r.err = NoError
                     /\ SameEngine(r, skip(Self, ub))
                ELSE ExpectMismatch(r, expected)

\* C12, amended: when the current token matches T, expect(T) performs exactly
\* one advance and raises no found-when-expecting error; the advance itself
\* may end in the fatal error of the scan of the next token.  When it does
\* not match, the found-when-expecting error is raised with the engine as it
\* was.
C12_ExpectAdvancesOnMatch ==
    Callable =>
        \A expected \in ParserTokens, ub \in UBOutcomes :
            LET r == expect(Self, expected, ub)
                n == skip(Self, ub)
            IN  IF matches(Self, expected)
                THEN /\ r.err = n.err
                     /\ SameEngine(r, n)
                     /\ \A found \in ParserTokens :
                            r.err # foundWhenExpecting(found, expected)
                ELSE ExpectMismatch(r, expected)

\* C12, witness: expect (Token::literalInt32) was called on an identifier and
\* threw, the identifier still current
C12_Witness ==
    /\ err = foundWhenExpecting(Token_identifier, Token_literalInt32)
    /\ currentType = Token_identifier
    /\ input > location

\* ------------------------------------------------------------------------
\* C13
\* ------------------------------------------------------------------------
\* C13: when the current token matches expected, matchAndReplaceIf makes
\* currentType the replacement and returns true, with the cursor, location
\* and the literal and string values as they were; when it does not match it
\* returns false and changes nothing.
C13_ReplaceRetagsOnly ==
    Callable =>
        \A expected \in ParserTokens, replaceWith \in ParserTokens :
            LET r == matchAndReplaceIf(Self, expected, replaceWith)
            IN  IF currentType = expected
                THEN /\ r.ret = TRUE
                     /\ r.currentType = replaceWith
                     /\ r.err = NoError
                     /\ r.input = input
                     /\ r.location = location
                     /\ r.literalIntValue = literalIntValue
                     /\ r.literalDoubleValue = literalDoubleValue
                     /\ r.currentStringValue = currentStringValue
                     /\ r.text = text
                ELSE /\ r.ret = FALSE
                     /\ SameEngine(r, Self)

\* C13, witness: the identifier f was re-tagged as the keyword if, the cursor
\* and its text as the scan left them
C13_Witness ==
    /\ text = Str(<<"f", " ", "1">>)
    /\ currentType = "if"
    /\ location = 1
    /\ input = 2
    /\ currentStringValue = Str(<<"f">>)
    /\ err = NoError

\* ------------------------------------------------------------------------
\* C14
\* ------------------------------------------------------------------------
\* the first pass over a text: for every skip() from s on, the position
\* getCurrentTokeniserPosition returns and the token that is current there;
\* an error ends the pass and has position 0
RECURSIVE passFrom(_)
passFrom(s) ==
    LET n == skip(s, "wrap") IN
    IF Failed(n) THEN << [pos |-> 0, token |-> [type |-> n.err, value |-> <<>>]] >>
    ELSE << [pos |-> getCurrentTokeniserPosition(n), token |-> CurrentToken(n)] >>
           \o (IF n.currentType = Token_eof THEN <<>> ELSE passFrom(n))

FirstPass == passFrom(Fresh(text))

\* the tokens of the first pass after its k-th
TokensAfter(k) == [i \in 1..(Len(FirstPass) - k) |-> FirstPass[k + i].token]

\* C14: whatever calls were made since, resetPosition (p) with p taken at a
\* token X of the first pass makes X current again, with its type as
\* scanned, its location and its value, and the advances that follow yield
\* the tokens that followed X in the first pass.
C14_ResetRoundTrip ==
    Callable =>
        \A k \in DOMAIN FirstPass, ub \in UBOutcomes :
            FirstPass[k].pos # 0 =>
                LET r == resetPosition(Self, FirstPass[k].pos, ub)
                IN  /\ r.err = NoError
                    /\ r.location = FirstPass[k].pos
                    /\ CurrentToken(r) = FirstPass[k].token
                    /\ r.currentType # Token_eof => tokensFrom(r) = TokensAfter(k)

\* C14, witness: after the number of "f 1" had been scanned, resetPosition
\* made the identifier current again (the integer value is still the
\* number's)
C14_Witness ==
    /\ text = Str(<<"f", " ", "1">>)
    /\ currentType = Token_identifier
    /\ location = 1
    /\ currentStringValue = Str(<<"f">>)
    /\ literalIntValue = U64(1)

\* ------------------------------------------------------------------------
\* C15
\* ------------------------------------------------------------------------
MaxAccumDelta == 16

MaxZeros == 2

\* numbers around 2^64, numbers with one more hex digit, and small ones
AccumValues ==
    {BigAddSmall(Pow2_64, d) : d \in (-MaxAccumDelta)..MaxAccumDelta}
      \cup {BigMulSmall(BigAddSmall(Pow2_64, d), 16) :
                d \in (-MaxAccumDelta)..MaxAccumDelta}
      \cup {BigAddSmall(BigZero, d) : d \in 0..2}

Zeros(k) == [i \in 1..k |-> Ch("0")]

\* digit runs in the four bases: the octal shape is a '0' before the run; a
\* decimal run has no zeros before it
AccumTexts ==
    {Str(<<"0", "x">>) \o Zeros(k) \o DigitsOf(n, 16) :
         k \in 0..MaxZeros, n \in AccumValues}
      \cup {Str(<<"0", "b">>) \o Zeros(k) \o DigitsOf(n, 2) :
                k \in 0..MaxZeros, n \in AccumValues}
      \cup {Zeros(k) \o DigitsOf(n, 8) : k \in 1..(MaxZeros + 1), n \in AccumValues}
      \cup {DigitsOf(n, 10) : n \in AccumValues}

InitAccum == InitOver(AccumTexts)

\* digit runs of every base at the 64-bit boundary
SpecAccum == InitAccum /\ [][Next]_vars

AccumBase ==
    IF startsWith(text, 1, Str(<<"0", "x">>)) THEN 16
    ELSE IF startsWith(text, 1, Str(<<"0", "b">>)) THEN 2
    ELSE IF At(text, 1) = Ch("0") /\ isDigit(text, 2) THEN 8
    ELSE 10

\* where parseIntegerWithBase starts reading
AccumStart == IF AccumBase \in {2, 16} THEN 3 ELSE 1

Max64 == BigAddSmall(Pow2_64, -1)

Low64(n) == SubSeq(n, 1, 4)

\* C15: the loop of parseIntegerWithBase accepts a digit run exactly when its
\* value is at most 2^64 - 1, and then holds that value; otherwise it throws
\* integerLiteralTooLarge at the first digit with which the value exceeds
\* 2^64 - 1, the accumulator holding a value that did not wrap (the digits
\* before, or their product with the base where that fits).  Zeros before
\* the run change nothing.
C15_AccumulatorNeverWraps ==
    (currentType # NullToken \/ err # NoError) =>
        LET b == AccumBase
            e == RunEnd(AccumStart, b)
            total == RunValue(AccumStart, e, b, BigZero)
            r == accumulateDigits(text, AccumStart, U64(0), 0, b)
            before == RunValue(AccumStart, r.t, b, BigZero)
        IN  /\ r.err = NoError <=> BigLeq(total, Max64)
            /\ r.err = NoError
                 => /\ r.t = e
                    /\ r.numDigits = e - AccumStart
                    /\ r.v = Low64(total)
            /\ r.err # NoError
                 => /\ r.err = "integerLiteralTooLarge"
                    /\ err = "integerLiteralTooLarge"
                    /\ BigLeq(before, Max64)
                    /\ ~BigLeq(RunValue(AccumStart, r.t + 1, b, BigZero), Max64)
                    /\ IF BigLeq(BigMulSmall(before, b), Max64)
                       THEN r.v = Low64(BigMulSmall(before, b))
                       ELSE r.v = Low64(before)
            /\ (r.err = NoError /\ b = 8) => err = "noOctalLiterals"
            /\ (err = NoError /\ currentType \in IntKinds)
                 => literalIntValue = Low64(total)

\* C15, witness: the octal-shaped run of value 2^64 was rejected as too
\* large
C15_Witness ==
    /\ text = Zeros(2) \o DigitsOf(Pow2_64, 8)
    /\ err = "integerLiteralTooLarge"

\* ------------------------------------------------------------------------
\* C16
\* ------------------------------------------------------------------------
MaxScanLen == 4

ScanChars == {Ch(c) : c \in {"0", "1", "x", "b", ".", "e", "\"", "-"}}

InitScan == InitOver(Strings(ScanChars, MaxScanLen))

\* prefixes, digits, points, exponents, quotes and minus signs
SpecScan == InitScan /\ [][Next]_vars

\* the engine as skip() hands it to matchNextToken from the current state
AtTokenStart ==
    LET s1 == skipWhitespaceAndComments(Self)
    IN  [s1 EXCEPT !.location = s1.input]

\* ... and as matchNextToken hands it on after a '-' before a digit
AfterMinus == [AtTokenStart EXCEPT !.input = @ + 1]

\* r is a scanner's answer "not mine" from s: no error, false, nothing changed
Untouched(r, s) == (r.err = NoError /\ r.ret = FALSE) => SameEngine(r, s)

\* s as every literal scanner leaves it
ScannersRestore(s) ==
    /\ Untouched(parseHexLiteral(s), s)
    /\ Untouched(parseFloatLiteral(s), s)
    /\ Untouched(parseOctalLiteral(s), s)
    /\ Untouched(parseBinaryLiteral(s), s)
    /\ Untouched(parseDecimalLiteral(s), s)
    /\ Untouched(parseStringLiteral(s, At(s.text, s.input)), s)

\* C16: a literal scanner that answers false, and throws nothing, leaves the
\* cursor, location and the literal, type and string values as they were at
\* the start of the token; so a '.' with no digit after it is matched as an
\* operator at that same position.
C16_FailedScannerRestores ==
    err = NoError =>
        /\ ScannersRestore(AtTokenStart)
        /\ ScannersRestore(AfterMinus)
        /\ (/\ At(text, AtTokenStart.input) = Ch(".")
            /\ ~isDigit(text, AtTokenStart.input + 1))
             => LET n == skip(Self, "wrap")
                IN  /\ n.err = NoError
                    /\ n.currentType = "."
                    /\ n.location = AtTokenStart.input
                    /\ n.input = AtTokenStart.input + 1

\* C16, witness: in "0.e" the float scanner gave up on ".e" and the point
\* was matched as an operator where it stands
C16_Witness ==
    /\ text = Str(<<"0", ".", "e">>)
    /\ currentType = "."
    /\ location = 2
    /\ input = 3
    /\ literalIntValue = U64(0)

\* ------------------------------------------------------------------------
\* C17
\* ------------------------------------------------------------------------
MaxLayoutPieces == 2

LayoutPieces ==
    {Str(<<"i", "f">>), Str(<<"f">>), Str(<<"1">>), Str(<<"-", "1", "L">>),
     Str(<<".", "1", "f">>), Str(<<"\"", "f", "\"">>), Str(<<"-">>),
     Str(<<".">>), Str(<<"\n">>), Str(<<"/", "*", "*", "/">>),
     Str(<<"/", "/">>)}

InitLayout == InitOver(Concatenations(LayoutPieces, MaxLayoutPieces))

\* a parser making every call on keywords, identifiers, plain, suffixed and
\* negative numbers, strings, operators, newlines and comments
SpecLayout == InitLayout /\ [][NextParser]_vars

\* the first position at or after p that is in no whitespace and no comment
\* (Len(text) + 1: the end of the text), or 0 where a comment is not closed
RECURSIVE TokenStartFrom(_)
TokenStartFrom(p) ==
    IF p > Len(text) THEN Len(text) + 1
    ELSE IF isWhitespace(text[p]) THEN TokenStartFrom(p + 1)
    ELSE IF text[p] = Ch("/") /\ At(text, p + 1) = Ch("/")
    THEN TokenStartFrom(EndOfLine(p + 2))
    ELSE IF text[p] = Ch("/") /\ At(text, p + 1) = Ch("*")
    THEN IF FirstCloser(p + 2) = 0 THEN 0
         ELSE TokenStartFrom(FirstCloser(p + 2) + 2)
    ELSE p

\* one past the maximal run of identifier-body characters from p on
RECURSIVE BodyRunEnd(_)
BodyRunEnd(p) == IF isIdentifierBody(At(text, p)) THEN BodyRunEnd(p + 1) ELSE p

\* one past a number without base prefix or exponent whose first digit or
\* point is at b: digits, a point and digits, then the suffix of its kind
NumberEnd(b, type) ==
    LET d == endOfDigits(text, b)
        hasPoint == At(text, d) = Ch(".")
        m == IF hasPoint THEN endOfDigits(text, d + 1) ELSE d
        suffix == CASE type = Token_literalInt64 -> <<Ch("L")>>
                    [] type = Token_literalFloat32 -> <<Ch("f")>>
                    [] OTHER -> <<>>
    IN  IF (type \in FloatKinds) = hasPoint /\ startsWith(text, m, suffix)
        THEN m + Len(suffix)
        ELSE 0

\* one past the last character of the token of the given type that starts at
\* p, or 0 where the text at p is no token of that type
TokenEnd(p, type) ==
    CASE type = Token_eof -> IF p = Len(text) + 1 THEN p ELSE 0
      [] type = Token_identifier \/ type = "if" ->
             IF isIdentifierStart(At(text, p)) THEN BodyRunEnd(p) ELSE 0
      [] type = Token_literalString ->
             IF At(text, p) \in {Ch("\""), Ch("'")}
                  /\ ContentFrom(p + 1, text[p], <<>>).closed
             THEN ContentFrom(p + 1, text[p], <<>>).end + 1
             ELSE 0
      [] type \in IntKinds \cup FloatKinds ->
             IF isDigit(text, LiteralStart(p)) \/ At(text, p) = Ch(".")
             THEN NumberEnd(LiteralStart(p), type)
             ELSE 0
      [] OTHER ->
             LET ops == {i \in DOMAIN Operators : Spell(Operators[i]) = type}
             IN  IF ops # {} /\ \A i \in ops : startsWith(text, p, Str(Operators[i]))
                 THEN p + Len(Operators[CHOOSE i \in ops : TRUE])
                 ELSE 0

\* s with other values in the three value fields
Poisoned(s, k) ==
    [s EXCEPT !.literalIntValue = U64(40 + k),
              !.literalDoubleValue = [neg |-> TRUE, mant |-> 40 + k, exp |-> k],
              !.currentStringValue = <<Ch("z"), 48 + k>>]

\* r is the engine after a successful advance that started with the cursor
\* at from
Layout(r, from) ==
    /\ r.currentType # NullToken
    /\ r.location = TokenStartFrom(from)
    /\ r.input = TokenEnd(r.location, r.currentType)
    /\ r.currentType = Token_eof
         => r.location = Len(text) + 1 /\ r.input = Len(text) + 1

\* the value of a literal that a and b hold, scanned from engines that
\* differed in every value field, is the same: the scan wrote it
Written(a, b) ==
    a.currentType \in LiteralKinds =>
        /\ a.err = NoError /\ b.err = NoError
        /\ CurrentToken(a) = CurrentToken(b)

\* C17: after the constructor and after every skip, matchIf that matched,
\* expect that did not throw and resetPosition, location is the first
\* character of the current token after all whitespace and comments (the
\* '-' of a negative literal), the cursor is one past its last character
\* (suffix and closing quote included), currentType is not the null token,
\* a literal's value field was written by this scan, and for eof location
\* and cursor are both at the end of the text.
C17_TokenLayout ==
    err = NoError =>
        \A ub \in UBOutcomes :
            /\ LET r == skip(Self, ub)
               IN  r.err = NoError
                     => /\ Layout(r, input)
                        /\ Written(skip(Poisoned(Self, 1), ub),
                                   skip(Poisoned(Self, 2), ub))
                        /\ CurrentToken(skip(Poisoned(Self, 1), ub)).type
                             = r.currentType
            /\ Callable =>
                 /\ \A expected \in ParserTokens :
                      /\ LET r == matchIf(Self, expected, ub)
                         IN  (r.err = NoError /\ r.ret) => Layout(r, input)
                      /\ LET r == expect(Self, expected, ub)
                         IN  r.err = NoError => Layout(r, input)
                 /\ \A newPos \in Positions(text) :
                      LET r == resetPosition(Self, newPos, ub)
                      IN  r.err = NoError
                            => /\ Layout(r, newPos)
                               /\ Written(
                                    resetPosition(Poisoned(Self, 1), newPos, ub),
                                    resetPosition(Poisoned(Self, 2), newPos, ub))

\* C17, witness: in "/**/-1L" the negative suffixed literal is current, with
\* location on its '-' after the comment and the cursor past its suffix
C17_Witness ==
    /\ text = Str(<<"/", "*", "*", "/", "-", "1", "L">>)
    /\ err = NoError
    /\ currentType = Token_literalInt64
    /\ location = 5
    /\ input = 8
    /\ literalIntValue = SNegate(U64(1))

\* ------------------------------------------------------------------------
\* C18
\* ------------------------------------------------------------------------
MaxIdentLen == 4

MaxNameLen == 2

IdentChars == {Ch(c) : c \in {"i", "f", "1", "_", " ", "\""}}

InitIdent == InitOver(Strings(IdentChars, MaxIdentLen))

\* identifiers with digits and underscores, the keyword alone and inside
\* longer runs, blanks and strings with the same text
SpecIdent == InitIdent /\ [][Next]_vars

\* the names a parser may ask matches (name) about
Names == Strings({Ch(c) : c \in {"i", "f", "1"}}, MaxNameLen)

\* the run is exactly the spelling of a keyword
IsKeyword(run) == \E i \in DOMAIN Keywords : Str(Keywords[i]) = run

\* matches (name) holds for the current token only where it is an identifier
\* whose characters in the text are name
MatchesOnlyRun ==
    \A name \in Names :
        matchesName(Self, name)
            => /\ currentType = Token_identifier
               /\ SubSeq(text, location, input - 1) = name

\* C18: a scan that starts on an identifier-start character consumes the
\* maximal run of identifier-body characters; where that run is exactly a
\* keyword, currentType is the keyword and currentStringValue stays what it
\* was, otherwise currentType is identifier and currentStringValue is the
\* run; so matches (name) holds only for an identifier whose run is name,
\* not for a keyword or a string literal with that text.
C18_IdentifierRun ==
    [][err = NoError
       => /\ isIdentifierStart(At(text, findEndOfWhitespace(text, input)))
               => LET start == findEndOfWhitespace(text, input)
                      run == SubSeq(text, start, BodyRunEnd(start) - 1)
                  IN  /\ err' = NoError
                      /\ location' = start
                      /\ input' = BodyRunEnd(start)
                      /\ IF IsKeyword(run)
                         THEN /\ currentType' = KeywordName(<<"i", "f">>)
                              /\ currentStringValue' = currentStringValue
                         ELSE /\ currentType' = Token_identifier
                              /\ currentStringValue' = run
          /\ err' = NoError => MatchesOnlyRun']_vars

\* C18, witness: in "f if" the keyword is current and the string value is
\* still that of the identifier before it
C18_Witness ==
    /\ text = Str(<<"f", " ", "i", "f">>)
    /\ currentType = "if"
    /\ location = 3
    /\ input = 5
    /\ currentStringValue = Str(<<"f">>)
    /\ ~matchesName(Self, Str(<<"f">>))

\* ------------------------------------------------------------------------
\* C19
\* ------------------------------------------------------------------------
MaxAdvancePieces == 3

AdvancePieces == TriviaPieces \cup {Str(<<"\"">>)}

InitAdvance == InitOver(Concatenations(AdvancePieces, MaxAdvancePieces))

\* a call of the constructor or of skip() is possible and changes the state:
\* ENABLED <<Next>>_vars, written out
CanAdvance ==
    /\ err = NoError
    /\ \E ub \in UBOutcomes :
           [(IF currentType = NullToken THEN skip(Fresh(text), ub)
             ELSE skip(Self, ub)) EXCEPT !.ret = FALSE] # Self

\* a parser that goes on calling skip() for as long as that changes
\* anything: weak fairness of Next
SpecAdvance ==
    InitAdvance /\ [][Next]_vars /\ ([]<>~CanAdvance \/ []<><<Next>>_vars)

\* C19: every advance ends with a current token or with a fatal error, an
\* advance that yields a token other than eof leaves the cursor at least one
\* character further on, and advancing again and again reaches eof or a
\* fatal error (also where a "//" comment has no newline after it).
C19_AdvanceTerminates ==
    /\ [][err = NoError
          => \/ err' # NoError
             \/ /\ currentType' # NullToken
                /\ currentType' # Token_eof => input' > input]_vars
    /\ <>(err # NoError \/ currentType = Token_eof)

\* C19, witness: the scan of "1//" went over the comment that no newline
\* ends and reached eof
C19_Witness ==
    /\ text = Str(<<"1", "/", "/">>)
    /\ err = NoError
    /\ currentType = Token_eof
    /\ input = 4
    /\ literalIntValue = U64(1)

\* ------------------------------------------------------------------------
\* C20
\* ------------------------------------------------------------------------
MaxEofPieces == 3

EofPieces ==
    {Str(<<"f">>), Str(<<"1">>), Str(<<" ">>), Str(<<"\n">>), Str(<<"#">>),
     Str(<<"/", "/">>), Str(<<"/", "*">>), Str(<<"*", "/">>)}

InitEof == InitOver(Concatenations(EofPieces, MaxEofPieces))

\* tokens, whitespace and comments before the end, and a character that
\* starts no token
SpecEof == InitEof /\ [][Next]_vars

\* r is s with the given result and nothing else changed, no error raised
Unmoved(r, s, result) == r = [s EXCEPT !.ret = result] /\ r.err = NoError

\* C20: once eof is the current token, skip() returns eof, raises no error
\* and changes nothing (nor does matchIf or expect of eof, which call it);
\* eof is current only with cursor and location at the end of the text, and
\* a character that starts no token is the illegal-character error, not eof.
C20_EofAbsorbing ==
    /\ currentType = Token_eof
         => /\ err = NoError
            /\ input = Len(text) + 1
            /\ location = Len(text) + 1
            /\ \A ub \in UBOutcomes :
                 /\ Unmoved(skip(Self, ub), Self, Token_eof)
                 /\ Unmoved(matchIf(Self, Token_eof, ub), Self, TRUE)
                 /\ SameEngine(expect(Self, Token_eof, ub), Self)
                 /\ expect(Self, Token_eof, ub).err = NoError
    /\ (err = NoError /\ At(text, TokenStartFrom(input)) = Ch("#"))
         => \A ub \in UBOutcomes :
              /\ skip(Self, ub).err = "illegalCharacter"
              /\ skip(Self, ub).currentType = currentType
              /\ currentType # Token_eof

\* C20, witness: in "f " the end was reached after the blank, with the
\* identifier's text still in currentStringValue
C20_Witness ==
    /\ text = Str(<<"f", " ">>)
    /\ currentType = Token_eof
    /\ err = NoError
    /\ input = 3
    /\ location = 3
    /\ currentStringValue = Str(<<"f">>)

====
